---- MODULE Spec2Model ----
(***************************************************************************)
(* A model of cosy/__init__.py: the COSYScript helper.                     *)
(*                                                                         *)
(*   content_subs        placeholder substitution                          *)
(*   eval_fox            eval-id allocation, scratch files, join callable  *)
(*   parse_transfer_map  fixed-width transfer-map parser and its evaluator *)
(*   parse_write         one labelled vector of a WRITE dump               *)
(*   parse_write_dict    a sequence of labelled vectors                    *)
(*                                                                         *)
(* Python strings are sequences of one-character strings.  Indices in the  *)
(* string helpers are Python's (0-based, negative ones counted from the    *)
(* end) so that the slices of the source can be transcribed literally.     *)
(* Numbers read by float() are exact decimals <<m, d>> = m / 10^d.         *)
(***************************************************************************)
EXTENDS Integers, Sequences, FiniteSets, TLC

VARIABLES
    \* eval_fox
    current_eval_ids, invocations, files, leaked, last,
    \* parse_write / parse_write_dict
    w_in, reduce_single, w_src, w_out, w_pc, w_prev, pw,
    \* parse_transfer_map / eval_map
    m_in, m_args, m_res, m_acc, m_row, m_pc,
    \* content_subs
    s_in, s_subs, s_content, s_idx, s_pc

idVars  == <<current_eval_ids, invocations, files, leaked, last>>
wrVars  == <<w_in, reduce_single, w_src, w_out, w_pc, w_prev, pw>>
mapVars == <<m_in, m_args, m_res, m_acc, m_row, m_pc>>
subVars == <<s_in, s_subs, s_content, s_idx, s_pc>>
vars    == <<idVars, wrVars, mapVars, subVars>>

\* what a call into one function family leaves alone
notIds   == <<wrVars, mapVars, subVars>>
notWrite == <<idVars, mapVars, subVars>>
notMap   == <<idVars, wrVars, subVars>>
notSubs  == <<idVars, wrVars, mapVars>>

(***************************************************************************)
(* Python string primitives                                                *)
(***************************************************************************)
Max(a, b) == IF a >= b THEN a ELSE b
Min(a, b) == IF a <= b THEN a ELSE b

\* str.strip() removes these (the ASCII ones the inputs here can hold)
Whitespace == {" ", "\n", "\t", "\r"}

\* the bound of a slice: negative counts from the end, then clamped
SliceIndex(s, i) == IF i < 0 THEN Max(i + Len(s), 0) ELSE Min(i, Len(s))

\* s[a:b]
Slice(s, a, b) == SubSeq(s, SliceIndex(s, a) + 1, SliceIndex(s, b))

\* s[a:]
SliceFrom(s, a) == SubSeq(s, SliceIndex(s, a) + 1, Len(s))

\* s[i] for an index in range (negative counts from the end)
At(s, i) == IF i < 0 THEN s[i + Len(s) + 1] ELSE s[i + 1]

\* s.startswith(p) at offset i (0-based)
MatchAt(s, p, i) ==
    /\ i + Len(p) <= Len(s)
    /\ \A j \in 1..Len(p) : s[i + j] = p[j]

\* s.find(p, start): the lowest 0-based index >= start where p occurs, or -1
Find(s, p, start) ==
    LET hits == {i \in Max(start, 0)..(Len(s) - Len(p)) : MatchAt(s, p, i)}
    IN  IF hits = {} THEN -1 ELSE CHOOSE i \in hits : \A j \in hits : i <= j

RECURSIVE LStrip(_)
LStrip(s) == IF s # <<>> /\ Head(s) \in Whitespace THEN LStrip(Tail(s)) ELSE s

RECURSIVE RStrip(_)
RStrip(s) ==
    IF s # <<>> /\ s[Len(s)] \in Whitespace
    THEN RStrip(SubSeq(s, 1, Len(s) - 1)) ELSE s

\* s.strip()
Strip(s) == RStrip(LStrip(s))

\* s.replace(old, new, 1): only the first occurrence
RECURSIVE ReplaceFirst(_, _, _)
ReplaceFirst(s, old, new) ==
    IF s = <<>> THEN <<>>
    ELSE IF MatchAt(s, old, 0)
         THEN new \o SubSeq(s, Len(old) + 1, Len(s))
         ELSE <<Head(s)>> \o ReplaceFirst(Tail(s), old, new)

\* s.replace(old, new) for a non-empty old: leftmost, non-overlapping
RECURSIVE Replace(_, _, _)
Replace(s, old, new) ==
    IF s = <<>> THEN <<>>
    ELSE IF MatchAt(s, old, 0)
         THEN new \o Replace(SubSeq(s, Len(old) + 1, Len(s)), old, new)
         ELSE <<Head(s)>> \o Replace(Tail(s), old, new)

\* whether p occurs in s
Contains(s, p) == Find(s, p, 0) # -1

RECURSIVE Concat(_)
Concat(ss) == IF ss = <<>> THEN <<>> ELSE Head(ss) \o Concat(Tail(ss))

(***************************************************************************)
(* eval_fox: eval ids, scratch files, the join callable                    *)
(***************************************************************************)
MaxInvocations == 3
MaxJoins == 2
MaxLeaked == 1

\* eval_id = 0; while eval_id in __current_eval_ids: eval_id += 1
RECURSIVE ScanEvalId(_, _)
ScanEvalId(ids, n) == IF n \in ids THEN ScanEvalId(ids, n + 1) ELSE n

NextEvalId(ids) == ScanEvalId(ids, 0)

\* <id>.txt is truncated and <id>.fox written by invocation n
WriteScratch(fs, id, n) ==
    [i \in (DOMAIN fs) \cup {id} |-> IF i = id THEN n ELSE fs[i]]

(***************************************************************************)
(* float() and int() on the characters the inputs here hold: decimal       *)
(* digits, a sign, one point, surrounding whitespace.  (No exponent, inf,  *)
(* nan or underscore occurs in the inputs of this model.)                  *)
(***************************************************************************)
Digits == <<"0", "1", "2", "3", "4", "5", "6", "7", "8", "9">>
IsDigit(c) == \E i \in 1..10 : Digits[i] = c
DigitValue(c) == (CHOOSE i \in 1..10 : Digits[i] = c) - 1

RECURSIVE DigitsValue(_)
DigitsValue(ds) ==
    IF ds = <<>> THEN 0
    ELSE 10 * DigitsValue(SubSeq(ds, 1, Len(ds) - 1)) + DigitValue(ds[Len(ds)])

RECURSIVE Pow(_, _)
Pow(b, e) == IF e = 0 THEN 1 ELSE b * Pow(b, e - 1)

\* the decimal m / 10^d in lowest form: equal numbers have equal forms
RECURSIVE Dec(_, _)
Dec(m, d) ==
    IF d > 0 /\ m % 10 = 0 THEN Dec(m \div 10, d - 1) ELSE [m |-> m, d |-> d]

DecAdd(a, b) ==
    LET d == Max(a.d, b.d)
    IN  Dec(a.m * Pow(10, d - a.d) + b.m * Pow(10, d - b.d), d)

\* a decimal times an integer
DecScale(a, n) == Dec(a.m * n, a.d)

\* float(s): [ok |-> FALSE] stands for the ValueError
ParseFloat(s) ==
    LET t      == Strip(s)
        signed == t # <<>> /\ Head(t) \in {"-", "+"}
        body   == IF signed THEN Tail(t) ELSE t
        dot    == Find(body, <<".">>, 0)
        ip     == IF dot = -1 THEN body ELSE Slice(body, 0, dot)
        fp     == IF dot = -1 THEN <<>> ELSE SliceFrom(body, dot + 1)
        sign   == IF signed /\ Head(t) = "-" THEN -1 ELSE 1
    IN  IF /\ \A j \in 1..Len(ip) : IsDigit(ip[j])
           /\ \A j \in 1..Len(fp) : IsDigit(fp[j])
           /\ Len(ip) + Len(fp) > 0
        THEN [ok |-> TRUE, val |-> Dec(sign * DigitsValue(ip \o fp), Len(fp))]
        ELSE [ok |-> FALSE]

\* int(c) of one character
ParseIntChar(c) ==
    IF IsDigit(c) THEN [ok |-> TRUE, val |-> DigitValue(c)] ELSE [ok |-> FALSE]

(***************************************************************************)
(* parse_write                                                             *)
(***************************************************************************)
\* src.replace("\r", "")
RemoveCR(s) == Replace(s, <<"\r">>, <<>>)

\* the while loop of parse_write, from (i, i_end, v)
RECURSIVE ParseWriteLoop(_, _, _, _)
ParseWriteLoop(src, i, i_end, v) ==
    IF Len(src) > i + 1 /\ At(src, i + 1) = " "
    THEN LET e == Find(src, <<"\n">>, i + 1)
             f == ParseFloat(Slice(src, i, e))
         IN  IF f.ok THEN ParseWriteLoop(src, e, e, Append(v, f.val))
             ELSE [ok |-> FALSE]
    ELSE [ok |-> TRUE, i_end |-> i_end, v |-> v]

\* rem = src[i_end:]: the newline at i_end kept
ParseWriteRemKeepsNewline(src, i_end) ==
    IF i_end > 0 THEN SliceFrom(src, i_end) ELSE <<>>

\* rem = src[i_end + 1 :] if i_end > 0 else src
ParseWriteRemWholeText(src, i_end) ==
    IF i_end > 0 THEN SliceFrom(src, i_end + 1) ELSE src

\* rem = src[i_end + 1 :] if i_end > 0 else ""
ParseWriteRem(src, i_end) == IF i_end > 0 THEN SliceFrom(src, i_end + 1) ELSE <<>>

\* parse_write(src): (k, v, rem), or the ValueError of a float()
ParseWrite(src0) ==
    LET src == RemoveCR(Strip(src0))
        i   == Find(src, <<"\n">>, 0)
        k   == Slice(src, 0, i)
        r   == ParseWriteLoop(src, i, i, <<>>)
    IN  IF r.ok
        THEN [ok |-> TRUE, k |-> k, v |-> r.v, rem |-> ParseWriteRem(src, r.i_end)]
        ELSE [ok |-> FALSE]

(***************************************************************************)
(* parse_write_dict                                                        *)
(***************************************************************************)
\* v[0] if v.size == 1 and reduce_single else v
Reduce(v, rs) ==
    IF Len(v) = 1 /\ rs THEN [scalar |-> TRUE, x |-> v[1]]
    ELSE [scalar |-> FALSE, x |-> v]

\* out[k] = val
DictSet(out, k, val) ==
    [x \in (DOMAIN out) \cup {k} |-> IF x = k THEN val ELSE out[x]]

\* while len(src) > 0
DictLoopCondNoBlank(src) == Len(src) > 0

\* while len(src) > 0 and src[0] != "\n"
DictLoopCond(src) == Len(src) > 0 /\ src[1] # "\n"


(***************************************************************************)
(* parse_transfer_map                                                      *)
(***************************************************************************)
FieldWidth == 14
FieldStart == 1
NumFields == 5
PowersStart == 72

Delim == <<"-", "-", "-", "-">>

\* i = 0; while i < len(src) and src[i] != "\n": i += 1
SkipLine(src) ==
    LET n == Find(src, <<"\n">>, 0) IN IF n = -1 THEN Len(src) ELSE n

\* the opening delimiter's line is never skipped
AfterOpeningKeepsLine(src) == Strip(src)

\* the text searched for the closing delimiter: src_[i + 1 :] when the
\* stripped text begins with a delimiter, else the text as given
AfterOpening(src) ==
    LET src_ == Strip(src)
    IN  IF Find(src_, Delim, 0) = 0
        THEN SliceFrom(src_, SkipLine(src) + 1)
        ELSE src

\* src[src.find("\n", src_end_i) :][1:]
MapRem(src, src_end_i) ==
    SliceFrom(SliceFrom(src, Find(src, <<"\n">>, src_end_i)), 1)

\* src.splitlines() for texts whose only line boundary is "\n"
RECURSIVE SplitLines(_)
SplitLines(s) ==
    IF s = <<>> THEN <<>>
    ELSE LET n == Find(s, <<"\n">>, 0)
         IN  IF n = -1 THEN <<s>>
             ELSE <<Slice(s, 0, n)>> \o SplitLines(SliceFrom(s, n + 1))

\* float(line[1 + j * 14 : 1 + (j + 1) * 14]) for j = 0..4
RowFields(line) ==
    [j \in 1..NumFields |->
        ParseFloat(Slice(line, FieldStart + (j - 1) * FieldWidth,
                               FieldStart + j * FieldWidth))]

\* [int(v) for v in line[2 + 5 * 14 :]]
RowPowers(line) ==
    LET t == SliceFrom(line, PowersStart)
    IN  [j \in 1..Len(t) |-> ParseIntChar(t[j])]

\* one entry of map_data, or the ValueError of a conversion
ParseRow(line) ==
    LET fs == RowFields(line)
        ps == RowPowers(line)
    IN  IF /\ \A j \in 1..NumFields : fs[j].ok
           /\ \A j \in 1..Len(ps) : ps[j].ok
        THEN [ok |-> TRUE,
              row |-> [j \in 1..NumFields |-> fs[j].val],
              basis_powers |-> [j \in 1..Len(ps) |-> ps[j].val]]
        ELSE [ok |-> FALSE]

\* the lines the comprehension keeps: line.strip() != ""
RECURSIVE NonBlank(_)
NonBlank(ls) ==
    IF ls = <<>> THEN <<>>
    ELSE IF Strip(Head(ls)) # <<>> THEN <<Head(ls)>> \o NonBlank(Tail(ls))
         ELSE NonBlank(Tail(ls))

\* map_data of the text between the delimiters
ParseRows(body) ==
    LET ls == NonBlank(SplitLines(body))
        rs == [j \in 1..Len(ls) |-> ParseRow(ls[j])]
    IN  IF \A j \in 1..Len(rs) : rs[j].ok
        THEN [ok |-> TRUE,
              map_data |-> [j \in 1..Len(rs) |->
                  [row |-> rs[j].row, basis_powers |-> rs[j].basis_powers]]]
        ELSE [ok |-> FALSE]

\* parse_transfer_map(src) up to its return: (map_data, rem) or the error
ParseTransferMap(src0) ==
    LET src       == AfterOpening(src0)
        src_end_i == Find(src, Delim, 0)
    IN  IF src_end_i = -1
        THEN [ok |-> FALSE, err |-> "ValueError: map data invalid"]
        ELSE LET r == ParseRows(Slice(src, 0, src_end_i))
             IN  IF r.ok
                 THEN [ok |-> TRUE, map_data |-> r.map_data,
                       rem |-> MapRem(src, src_end_i)]
                 ELSE [ok |-> FALSE, err |-> "ValueError: conversion"]

(***************************************************************************)
(* eval_map                                                                *)
(***************************************************************************)
\* whether np.power(args, basis_powers) broadcasts
Broadcasts(args, ps) == Len(ps) = Len(args) \/ Len(ps) = 1 \/ Len(args) = 1

\* np.power(args, basis_powers), elementwise after broadcasting
NpPower(args, ps) ==
    LET n == Max(Len(args), Len(ps))
    IN  [j \in 1..n |->
            Pow(IF Len(args) = 1 THEN args[1] ELSE args[j],
                IF Len(ps) = 1 THEN ps[1] ELSE ps[j])]

\* np.sum in the place of np.prod
RECURSIVE NpSum(_)
NpSum(xs) == IF xs = <<>> THEN 0 ELSE Head(xs) + NpSum(Tail(xs))

\* np.prod
RECURSIVE NpProd(_)
NpProd(xs) == IF xs = <<>> THEN 1 ELSE Head(xs) * NpProd(Tail(xs))

\* row * np.prod(np.power(args, basis_powers))
RowTerm(entry, args) ==
    LET p == NpProd(NpPower(args, entry.basis_powers))
    IN  [j \in 1..NumFields |-> DecScale(entry.row[j], p)]

\* the start value of sum(): the integer 0
SumStart == [vec |-> FALSE, x |-> Dec(0, 0)]

\* acc + term, the scalar broadcast over the vector
NpAdd(acc, term) ==
    [vec |-> TRUE,
     x |-> [j \in 1..NumFields |->
               DecAdd(IF acc.vec THEN acc.x[j] ELSE acc.x, term[j])]]

\* np.zeros(5)
Zeros == [j \in 1..NumFields |-> Dec(0, 0)]

\* the input vectors (x, a, y, b, t, K) eval_map is called with
MapArgs ==
    { <<2, 0, 0, 0, 0, 0>>, <<2, 3, -1, 0, 1, 5>>,
      <<0, 1, 2, 0, 0, 0>>, <<-1, 2, 0, 3, 1, 1>> }

(***************************************************************************)
(* content_subs                                                            *)
(***************************************************************************)
\* f"{{{{{sub_from}}}}}"
Placeholder(key) == <<"{", "{">> \o key \o <<"}", "}">>

(***************************************************************************)
(* Inputs                                                                  *)
(***************************************************************************)
MaxLines == 3
MaxChars == 3
MaxRows == 2
MaxTokens == 4

\* the lines of s, joined by "\n"
RECURSIVE JoinLines(_)
JoinLines(ls) ==
    IF ls = <<>> THEN <<>>
    ELSE IF Len(ls) = 1 THEN Head(ls)
         ELSE Head(ls) \o <<"\n">> \o JoinLines(Tail(ls))

SeqsUpTo(S, n) == UNION {[1..k -> S] : k \in 0..n}

\* "X\n 1.0\n 2.0\n\nY\n 3.0\n"
ExampleText ==
    << "X", "\n", " ", "1", ".", "0", "\n", " ", "2", ".", "0", "\n", "\n",
       "Y", "\n", " ", "3", ".", "0", "\n" >>

\* the same two blocks with no blank line between them
ExampleTextDense ==
    << "X", "\n", " ", "1", ".", "0", "\n", " ", "2", ".", "0", "\n",
       "Y", "\n", " ", "3", ".", "0", "\n" >>

WriteLines ==
    { <<"X">>, <<"Y">>, <<" ", "1", ".", "0">>, <<" ", "2", ".", "5">>,
      <<" ", "1", "2">>, <<" ", "3", ".", "0", "\r">>, <<>> }

WriteChars == {"X", " ", "\n", "1"}

WriteInputs ==
    {ExampleText, ExampleTextDense}
    \cup {JoinLines(ls) \o t : ls \in SeqsUpTo(WriteLines, MaxLines),
                               t \in {<<>>, <<"\n">>}}
    \cup SeqsUpTo(WriteChars, MaxChars)

\* before any call
IdleWrite ==
    /\ w_in = <<>>
    /\ reduce_single = TRUE
    /\ w_src = <<>>
    /\ w_prev = <<>>
    /\ w_out = [k \in {} |-> 0]
    /\ w_pc = "idle"
    /\ pw = [ok |-> FALSE]

\* a text right-justified in a field of 14 characters
Field(txt) == [j \in 1..(FieldWidth - Len(txt)) |-> " "] \o txt

\* a row as the external tool prints it: a space, five fields, a space,
\* the exponents
RowLine(fields, powers) ==
    <<" ">> \o Concat([j \in 1..Len(fields) |-> Field(fields[j])])
            \o <<" ">> \o powers

F0 == <<"0", ".", "0">>
F1 == <<"1", ".", "0">>
F15 == <<"1", ".", "5">>
FNeg2 == <<"-", "2", ".", "0">>

MapRowLines ==
    { RowLine(<<F1, F0, F0, F0, F0>>, <<"1", "0", "0", "0", "0", "0">>),
      RowLine(<<F0, F15, F0, FNeg2, F0>>, <<"0", "2", "0", "1", "0", "0">>),
      RowLine(<<F0, F0, F1, F0, F0>>, <<"1", "1", "0">>),
      <<>> }

MapLeads == { <<>>, <<"\n">>, <<" ", " ">> }
MapDelims == { Delim, Delim \o <<"-">> }
MapTails == { <<>>, <<"R", "\n", "S", "\n">> }

\* [lead] [opening delimiter line] rows [closing delimiter line [tail]]
MapInputs ==
    { lead \o open \o Concat([j \in 1..Len(rows) |-> rows[j] \o <<"\n">>])
           \o close :
        lead \in MapLeads,
        open \in {<<>>} \cup {d \o <<"\n">> : d \in MapDelims},
        rows \in SeqsUpTo(MapRowLines, MaxRows),
        close \in {<<>>} \cup {d : d \in MapDelims}
                  \cup {d \o <<"\n">> \o t : d \in MapDelims, t \in MapTails} }

\* before any call
IdleMap ==
    /\ m_in = <<>>
    /\ m_args = <<>>
    /\ m_res = [ok |-> FALSE]
    /\ m_acc = SumStart
    /\ m_row = 0
    /\ m_pc = "idle"

SubsTokens ==
    { Placeholder(<<"a">>), Placeholder(<<"b">>), <<"{">>, <<"}">>, <<"a">> }
SubsKeys == { <<"a">>, <<"b">> }
SubsValues == { <<>>, <<"b">>, <<"{", "{", "a", "}", "}">> }

SubsContents == {Concat(ts) : ts \in SeqsUpTo(SubsTokens, MaxTokens)}

\* the dicts over SubsKeys, in insertion order
SubsDicts ==
    { d \in SeqsUpTo([key : SubsKeys, value : SubsValues], 2) :
        \A i, j \in 1..Len(d) : i # j => d[i].key # d[j].key }

\* content "{{a}}{{a}}x{{a}}{{a}}" with a key that holds braces: "a}}x{{a"
BraceKeyContent ==
    Concat(<< Placeholder(<<"a">>), Placeholder(<<"a">>), <<"x">>,
              Placeholder(<<"a">>), Placeholder(<<"a">>) >>)
BraceKeyDict ==
    << [key |-> <<"a", "}", "}", "x", "{", "{", "a">>, value |-> <<"x">>] >>

\* what content_subs is called with
SubsInputs ==
    {<<c, d>> : c \in SubsContents, d \in SubsDicts}
    \cup {<<BraceKeyContent, BraceKeyDict>>}

\* before any call
IdleSubs ==
    /\ s_in = <<>>
    /\ s_subs = <<>>
    /\ s_content = <<>>
    /\ s_idx = 1
    /\ s_pc = "idle"

(***************************************************************************)
(* Actions of eval_fox and its join callable                               *)
(***************************************************************************)
\* __current_eval_ids = set(): the module is imported, eval_fox not called
IdleIds ==
    /\ current_eval_ids = {}
    /\ invocations = <<>>
    /\ files = [i \in {} |-> 0]
    /\ leaked = 0
    /\ last = [op |-> "none"]

\* eval_fox up to its return: the id is taken, the scratch files are
\* (over)written, the subprocess is started and the join callable returned
EvalFox ==
    /\ Len(invocations) < MaxInvocations
    /\ LET id == NextEvalId(current_eval_ids)
           n  == Len(invocations) + 1
       IN  /\ current_eval_ids' = current_eval_ids \cup {id}
           /\ files' = WriteScratch(files, id, n)
           /\ invocations' = Append(invocations,
                  [eval_id |-> id, exited |-> FALSE, joins |-> 0])
           /\ last' = [op |-> "eval_fox", inv |-> n, id |-> id,
                       before |-> current_eval_ids]
    /\ UNCHANGED leaked
    /\ UNCHANGED notIds

\* eval_fox when subprocess.Popen raises (no executable): the id is already
\* in the set and the files written, and no callable is returned
EvalFoxLaunchFails ==
    /\ leaked < MaxLeaked
    /\ Len(invocations) < MaxInvocations
    /\ LET id == NextEvalId(current_eval_ids)
       IN  /\ current_eval_ids' = current_eval_ids \cup {id}
           /\ files' = WriteScratch(files, id, 0)
           /\ last' = [op |-> "eval_fox_failed", id |-> id,
                       before |-> current_eval_ids]
    /\ leaked' = leaked + 1
    /\ UNCHANGED invocations
    /\ UNCHANGED notIds

\* the external process of invocation k ends
ProcessExits(k) ==
    /\ ~invocations[k].exited
    /\ invocations' = [invocations EXCEPT ![k].exited = TRUE]
    /\ UNCHANGED <<current_eval_ids, files, leaked, last>>
    /\ UNCHANGED notIds

\* cosy_proc_join of invocation k, once wait() has returned: set.remove
\* raises KeyError when the id is not in the set, else the output is read
CosyProcJoin(k) ==
    /\ invocations[k].exited
    /\ invocations[k].joins < MaxJoins
    /\ LET id == invocations[k].eval_id
       IN  IF id \in current_eval_ids
           THEN /\ current_eval_ids' = current_eval_ids \ {id}
                /\ last' = [op |-> "join", inv |-> k, id |-> id,
                            read |-> files[id]]
           ELSE /\ current_eval_ids' = current_eval_ids
                /\ last' = [op |-> "join_KeyError", inv |-> k, id |-> id]
    /\ invocations' = [invocations EXCEPT ![k].joins = @ + 1]
    /\ UNCHANGED <<files, leaked>>
    /\ UNCHANGED notIds

NextIds ==
    \/ EvalFox
    \/ EvalFoxLaunchFails
    \/ \E k \in 1..Len(invocations) : ProcessExits(k)
    \/ \E k \in 1..Len(invocations) : CosyProcJoin(k)

(***************************************************************************)
(* Actions of parse_write and parse_write_dict                             *)
(***************************************************************************)
\* parse_write_dict(src, rs) is called: src = src.strip(); out = {}
DictStrip ==
    /\ w_pc = "idle"
    /\ \E src \in WriteInputs, rs \in BOOLEAN :
          /\ w_in' = src
          /\ reduce_single' = rs
          /\ w_src' = Strip(src)
    /\ w_prev' = w_src'
    /\ w_pc' = "loop"
    /\ UNCHANGED <<w_out, pw>>
    /\ UNCHANGED notWrite

\* one iteration: k, v, src = parse_write(src); out[k] = ...
DictIterate ==
    /\ w_pc = "loop"
    /\ DictLoopCond(w_src)
    /\ LET r == ParseWrite(w_src)
       IN  IF r.ok
           THEN /\ w_out' = DictSet(w_out, r.k, Reduce(r.v, reduce_single))
                /\ w_src' = r.rem
                /\ w_prev' = w_src
                /\ w_pc' = "loop"
           ELSE /\ w_pc' = "ValueError"
                /\ UNCHANGED <<w_out, w_src, w_prev>>
    /\ UNCHANGED <<w_in, reduce_single, pw>>
    /\ UNCHANGED notWrite

\* return out, src
DictReturn ==
    /\ w_pc = "loop"
    /\ ~DictLoopCond(w_src)
    /\ w_pc' = "done"
    /\ UNCHANGED <<w_in, reduce_single, w_src, w_out, w_prev, pw>>
    /\ UNCHANGED notWrite

\* parse_write(src) is called on its own
ParseWriteCall ==
    /\ w_pc = "idle"
    /\ \E src \in WriteInputs :
          /\ w_in' = src
          /\ pw' = ParseWrite(src)
    /\ w_pc' = "pw_done"
    /\ UNCHANGED <<reduce_single, w_src, w_out, w_prev>>
    /\ UNCHANGED notWrite

NextWrite == DictStrip \/ DictIterate \/ DictReturn \/ ParseWriteCall

(***************************************************************************)
(* Actions of parse_transfer_map and eval_map                              *)
(***************************************************************************)
\* parse_transfer_map(src) is called: (eval_map, rem), or a ValueError
MapParse ==
    /\ m_pc = "idle"
    /\ \E src \in MapInputs :
          /\ m_in' = src
          /\ m_res' = ParseTransferMap(src)
    /\ m_pc' = IF m_res'.ok THEN "parsed" ELSE "ValueError"
    /\ UNCHANGED <<m_args, m_acc, m_row>>
    /\ UNCHANGED notMap

\* eval_map(args) is called
EvalCall ==
    /\ m_pc = "parsed"
    /\ m_args' \in MapArgs
    /\ m_acc' = SumStart
    /\ m_row' = 1
    /\ m_pc' = "sum"
    /\ UNCHANGED <<m_in, m_res>>
    /\ UNCHANGED notMap

\* sum() takes the next term of the generator
EvalRow ==
    /\ m_pc = "sum"
    /\ m_row <= Len(m_res.map_data)
    /\ IF Broadcasts(m_args, m_res.map_data[m_row].basis_powers)
       THEN /\ m_acc' = NpAdd(m_acc, RowTerm(m_res.map_data[m_row], m_args))
            /\ m_row' = m_row + 1
            /\ m_pc' = "sum"
       ELSE /\ m_pc' = "eval ValueError"
            /\ UNCHANGED <<m_acc, m_row>>
    /\ UNCHANGED <<m_in, m_args, m_res>>
    /\ UNCHANGED notMap

\* ... + np.zeros(5) is returned
EvalReturn ==
    /\ m_pc = "sum"
    /\ m_row > Len(m_res.map_data)
    /\ m_acc' = NpAdd(m_acc, Zeros)
    /\ m_pc' = "done"
    /\ UNCHANGED <<m_in, m_args, m_res, m_row>>
    /\ UNCHANGED notMap

NextMap == MapParse \/ EvalCall \/ EvalRow \/ EvalReturn

(***************************************************************************)
(* Actions of content_subs                                                 *)
(***************************************************************************)
\* content_subs(content, subs) is called
SubsCall ==
    /\ s_pc = "idle"
    /\ \E in \in SubsInputs :
          /\ s_in' = in[1]
          /\ s_subs' = in[2]
          /\ s_content' = in[1]
    /\ s_idx' = 1
    /\ s_pc' = "loop"
    /\ UNCHANGED notSubs

\* content.replace(placeholder, str(sub_to)) for the next item of subs
SubsStep ==
    /\ s_pc = "loop"
    /\ s_idx <= Len(s_subs)
    /\ s_content' = Replace(s_content, Placeholder(s_subs[s_idx].key),
                            s_subs[s_idx].value)
    /\ s_idx' = s_idx + 1
    /\ UNCHANGED <<s_in, s_subs, s_pc>>
    /\ UNCHANGED notSubs

\* return content
SubsReturn ==
    /\ s_pc = "loop"
    /\ s_idx > Len(s_subs)
    /\ s_pc' = "done"
    /\ UNCHANGED <<s_in, s_subs, s_content, s_idx>>
    /\ UNCHANGED notSubs

NextSubs == SubsCall \/ SubsStep \/ SubsReturn

(***************************************************************************)
(* Specifications: one per function family                                   *)
(***************************************************************************)
\* the module has been imported: nothing has been called
InitIdle == IdleIds /\ IdleWrite /\ IdleMap /\ IdleSubs

SpecIds == InitIdle /\ [][NextIds]_vars

SpecWrite == InitIdle /\ [][NextWrite]_vars

SpecMap == InitIdle /\ [][NextMap]_vars

SpecSubs == InitIdle /\ [][NextSubs]_vars

Init == InitIdle

Next == NextIds \/ NextWrite \/ NextMap \/ NextSubs

Spec == Init /\ [][Next]_vars

(***************************************************************************)
(* Properties of eval_fox                                                  *)
(***************************************************************************)
\* invocation k was started and its own join callable has not been called
Pending(k) == invocations[k].joins = 0

\* C1: every eval_fox call takes the smallest non-negative integer not in
\* the active set and adds it; the id stays in the set until the join
\* callable of that call is invoked; after a join that completes, the id is
\* not in the set.
C1_EvalIdRoundTrip ==
    /\ last.op = "eval_fox" =>
          /\ last.id \notin last.before
          /\ \A n \in 0..(last.id - 1) : n \in last.before
          /\ last.id \in current_eval_ids
    /\ \A k \in 1..Len(invocations) :
          Pending(k) => invocations[k].eval_id \in current_eval_ids
    /\ last.op = "join" => last.id \notin current_eval_ids

\* C10: with join callables called any number of times, two pending
\* invocations never hold the same eval id, and the scratch files of a
\* pending invocation are the ones it wrote itself.
C10_PendingIdsDistinct ==
    /\ \A j, k \in 1..Len(invocations) :
          j # k /\ Pending(j) /\ Pending(k) =>
              invocations[j].eval_id # invocations[k].eval_id
    /\ \A k \in 1..Len(invocations) :
          Pending(k) => files[invocations[k].eval_id] = k

(***************************************************************************)
(* Properties of parse_write and parse_write_dict                          *)
(***************************************************************************)
One == Dec(1, 0)
Two == Dec(2, 0)
Three == Dec(3, 0)

\* "\nY\n 3.0": what parse_write leaves of the example
ExampleRem == << "\n", "Y", "\n", " ", "3", ".", "0" >>

\* C2 (as amended): parse_write of the example text returns the label "X",
\* the values [1.0, 2.0] and the remaining text "\nY\n 3.0": the blank line
\* is not consumed and the trailing newline is stripped.
C2_ParseWriteExample ==
    w_pc = "pw_done" /\ w_in = ExampleText =>
        pw = [ok |-> TRUE, k |-> <<"X">>, v |-> <<One, Two>>, rem |-> ExampleRem]

C2_Witness == w_pc = "pw_done" /\ w_in = ExampleText /\ pw.ok

\* C2 as stated: the remaining text is "Y\n 3.0\n".
C2_Original ==
    w_pc = "pw_done" /\ w_in = ExampleText =>
        pw = [ok |-> TRUE, k |-> <<"X">>, v |-> <<One, Two>>,
              rem |-> << "Y", "\n", " ", "3", ".", "0", "\n" >>]

\* C3 (as amended): parse_write_dict with reduce_single of the example text
\* returns {"X": [1.0, 2.0]} and the unread text "\nY\n 3.0", because it
\* stops at the blank line; of the same blocks with no blank line between
\* them it returns {"X": [1.0, 2.0], "Y": 3.0}, the single value a scalar.
C3_DictExample ==
    /\ w_pc = "done" /\ reduce_single /\ w_in = ExampleText =>
          /\ w_out = (<<"X">> :> [scalar |-> FALSE, x |-> <<One, Two>>])
          /\ w_src = ExampleRem
    /\ w_pc = "done" /\ reduce_single /\ w_in = ExampleTextDense =>
          /\ w_out = (<<"X">> :> [scalar |-> FALSE, x |-> <<One, Two>>]
                      @@ <<"Y">> :> [scalar |-> TRUE, x |-> Three])
          /\ w_src = <<>>

C3_Witness ==
    w_pc = "done" /\ reduce_single /\ w_in = ExampleText /\ w_src # <<>>

\* C3 as stated: the example text yields {"X": [1.0, 2.0], "Y": 3.0}.
C3_Original ==
    w_pc = "done" /\ reduce_single /\ w_in = ExampleText =>
        w_out = (<<"X">> :> [scalar |-> FALSE, x |-> <<One, Two>>]
                 @@ <<"Y">> :> [scalar |-> TRUE, x |-> Three])

\* a label line followed by n >= 1 lines that begin with a space and write
\* a number, with or without a newline after the last
IsLabelledBlock(src) ==
    LET ls == SplitLines(src)
    IN  /\ Len(ls) >= 2
        /\ Head(ls) # <<>> /\ Head(Head(ls)) \notin Whitespace
        /\ \A i \in 2..Len(ls) :
              /\ ls[i] # <<>> /\ Head(ls[i]) = " "
              /\ ParseFloat(ls[i]).ok

\* C7: for a label line followed by n >= 1 indented lines, parse_write
\* returns n values, the i-th the number written by the whole i-th indented
\* line, the last line included.
C7_AllIndentedLinesRead ==
    w_pc = "pw_done" /\ IsLabelledBlock(w_in) =>
        LET ls == SplitLines(w_in)
        IN  /\ pw.ok
            /\ Len(pw.v) = Len(ls) - 1
            /\ \A i \in 1..(Len(ls) - 1) : pw.v[i] = ParseFloat(ls[i + 1]).val

\* the text the loop of parse_write_dict tests is empty or begins a blank line
AtBlankOrEnd(src) == src = <<>> \/ Head(src) = "\n"

\* C9: parse_write_dict terminates unless a conversion fails: every
\* iteration leaves a strictly shorter text (so the length of the text bounds
\* the number of iterations), and the loop ends exactly when the text is
\* empty or begins with a newline, that text being returned with the mapping.
C9_DictTerminates ==
    /\ [][w_pc = "loop" /\ w_pc' = "loop" => Len(w_src') < Len(w_src)]_vars
    /\ [][w_pc = "loop" /\ AtBlankOrEnd(w_src) => w_pc' = "done"]_vars
    /\ [][w_pc = "loop" /\ w_pc' = "done" =>
              AtBlankOrEnd(w_src) /\ w_src' = w_src /\ w_out' = w_out]_vars

C9_Witness ==
    /\ w_pc = "done"
    /\ Cardinality(DOMAIN w_out) = 2
    /\ Len(w_src) < Len(w_prev)

(***************************************************************************)
(* Properties of parse_transfer_map and eval_map                           *)
(***************************************************************************)
\* the text after the first line of s ("" when s is one line)
AfterFirstLine(s) ==
    LET n == Find(s, <<"\n">>, 0) IN IF n = -1 THEN <<>> ELSE SliceFrom(s, n + 1)

\* no "----" at all, or only the delimiter line the input begins with
NoClosingDelim(src) ==
    \/ ~Contains(src, Delim)
    \/ MatchAt(src, Delim, 0) /\ ~Contains(AfterFirstLine(src), Delim)

RECURSIVE Monomial(_, _, _)
Monomial(args, powers, i) ==
    IF i > Len(args) THEN 1
    ELSE Pow(args[i], powers[i]) * Monomial(args, powers, i + 1)

\* component j of the sum over the first n rows
RECURSIVE RowsSum(_, _, _, _)
RowsSum(map_data, args, j, n) ==
    IF n = 0 THEN Dec(0, 0)
    ELSE DecAdd(RowsSum(map_data, args, j, n - 1),
                DecScale(map_data[n].row[j],
                         Monomial(args, map_data[n].basis_powers, 1)))

FullRows(map_data, args) ==
    \A r \in 1..Len(map_data) : Len(map_data[r].basis_powers) = Len(args)

UnitRow == [row |-> <<One, Dec(0, 0), Dec(0, 0), Dec(0, 0), Dec(0, 0)>>,
            basis_powers |-> <<1, 0, 0, 0, 0, 0>>]

\* C5: eval_map returns the length-5 sum over the rows of the coefficients
\* times the product of args[i] ^ exponent[i]; no rows give five zeros; the
\* single row [1,0,0,0,0] / [1,0,0,0,0,0] at an input whose first coordinate
\* is 2 gives [2,0,0,0,0].
C5_EvalMapIsPolynomial ==
    /\ m_pc = "done" /\ FullRows(m_res.map_data, m_args) =>
          /\ m_acc.vec
          /\ m_acc.x = [j \in 1..5 |->
                RowsSum(m_res.map_data, m_args, j, Len(m_res.map_data))]
    /\ m_pc = "done" /\ m_res.map_data = <<>> =>
          m_acc.x = <<Dec(0, 0), Dec(0, 0), Dec(0, 0), Dec(0, 0), Dec(0, 0)>>
    /\ m_pc = "done" /\ m_res.map_data = <<UnitRow>> /\ m_args[1] = 2 =>
          m_acc.x = <<Two, Dec(0, 0), Dec(0, 0), Dec(0, 0), Dec(0, 0)>>

C5_Witness ==
    /\ m_pc = "done"
    /\ Len(m_res.map_data) = 2
    /\ FullRows(m_res.map_data, m_args)
    /\ m_acc.x[2] = Dec(18, 0)
    /\ m_acc.x[4] = Dec(-24, 0)

\* the stripped input begins with a delimiter and holds a later one
Delimited(src) ==
    /\ MatchAt(Strip(src), Delim, 0)
    /\ Contains(AfterFirstLine(Strip(src)), Delim)

\* the text after the line of the delimiter found at c
AfterLineAt(s, c) ==
    LET n == Find(s, <<"\n">>, c) IN IF n = -1 THEN <<>> ELSE SliceFrom(s, n + 1)

\* C8: for an input that, stripped, begins with a delimiter and holds a
\* later one, exactly the opening delimiter's line is skipped, the rows are
\* the non-blank lines up to the closing delimiter, each in full, and the
\* remainder is the text after the closing delimiter's line, with or
\* without whitespace in front of the opening delimiter.
C8_DelimitedMapParsed ==
    m_pc \in {"parsed", "ValueError"} /\ Delimited(m_in) =>
        LET body == AfterFirstLine(Strip(m_in))
            c    == Find(body, Delim, 0)
            rows == ParseRows(Slice(body, 0, c))
        IN  /\ rows.ok
            /\ m_res = [ok |-> TRUE, map_data |-> rows.map_data,
                        rem |-> AfterLineAt(body, c)]

(***************************************************************************)
(* Properties of content_subs                                              *)
(***************************************************************************)
\* whether some brace of s opens inside two open braces
RECURSIVE NestedFrom(_, _)
NestedFrom(s, depth) ==
    IF s = <<>> THEN FALSE
    ELSE LET d == IF Head(s) = "{" THEN depth + 1
                  ELSE IF Head(s) = "}" THEN Max(depth - 1, 0)
                  ELSE depth
         IN  d > 2 \/ NestedFrom(Tail(s), d)

NoNestedBraces(s) == ~NestedFrom(s, 0)

BraceFree(s) == \A i \in 1..Len(s) : s[i] \notin {"{", "}"}

NoPlaceholderLeft ==
    \A i \in 1..Len(s_subs) : ~Contains(s_content, Placeholder(s_subs[i].key))

\* C6 (as amended): for content without nested braces and a subs mapping
\* whose keys and values hold no brace, the result of content_subs holds no
\* "{{key}}" of any key of subs.
C6_NoPlaceholderLeft ==
    /\ s_pc = "done"
    /\ NoNestedBraces(s_in)
    /\ \A i \in 1..Len(s_subs) :
          BraceFree(s_subs[i].key) /\ BraceFree(s_subs[i].value)
    => NoPlaceholderLeft

C6_Witness ==
    /\ s_pc = "done"
    /\ NoNestedBraces(s_in)
    /\ Len(s_subs) = 2
    /\ \A i \in 1..Len(s_subs) :
          /\ BraceFree(s_subs[i].key) /\ BraceFree(s_subs[i].value)
          /\ Contains(s_in, Placeholder(s_subs[i].key))
    /\ s_content # s_in

\* C6 as stated: any keys, any values.
C6_Original == s_pc = "done" /\ NoNestedBraces(s_in) => NoPlaceholderLeft

====
